---- MODULE Spec2Model ----
(***************************************************************************)
(* Smart Parking Detection Server: the upload / detect / OCR / store       *)
(* pipeline of server.py (POST /upload, POST /telegram-webhook) and of     *)
(* detect_and_ocr.py (detect_plates), as one request at a time.            *)
(*                                                                         *)
(* Strings the code inspects character by character (class names, OCR      *)
(* text) are sequences of code points; image coordinates coming from the   *)
(* detector are floats, modelled in half pixels and truncated by int().    *)
(***************************************************************************)
EXTENDS Integers, Sequences, FiniteSets, TLC

\* ---------------------------------------------------------------- bounds
\* Width and height, in pixels, of the decoded image of a request.
W == 3
H == 3
\* Largest number of boxes the detector returns for one image.
MaxBoxes == 2
\* Longest raw string handed to the sanitizer in SanSpec.
MaxLen == 3

\* ------------------------------------------------------------- utilities
Max(a, b) == IF a >= b THEN a ELSE b
Min(a, b) == IF a <= b THEN a ELSE b

\* ----------------------------------------------------- strings as code points
\* "unreadable", "plate", "no_plate_detected"
UNREADABLE == <<117, 110, 114, 101, 97, 100, 97, 98, 108, 101>>
PLATE == <<112, 108, 97, 116, 101>>
NO_PLATE_DETECTED ==
    <<110, 111, 95, 112, 108, 97, 116, 101, 95, 100, 101, 116, 101, 99, 116, 101, 100>>
\* Python's None where a string (text, URL, file key) is expected: no string,
\* since code points are never negative.
None == <<-1>>

IsAsciiUpper(c) == c \in 65..90
IsAsciiLower(c) == c \in 97..122
IsAsciiDigit(c) == c \in 48..57
IsAsciiAlnum(c) == IsAsciiUpper(c) \/ IsAsciiLower(c) \/ IsAsciiDigit(c)

\* The characters raw OCR text is drawn from:
\* 'A' 'c' '1' '-' ' ' '\n' and two non-ASCII ones, U+00C9 and U+00B2.
Alphabet == {65, 99, 49, 45, 32, 10, 201, 178}

\* str.isalnum() on one character of Alphabet: Unicode letters and digits.
IsAlnum(c) == IsAsciiAlnum(c) \/ c \in {201, 178}

\* str.lower() on one character (ASCII range of the class names).
LowerChar(c) == IF IsAsciiUpper(c) THEN c + 32 ELSE c
Lower(s) == [k \in 1..Len(s) |-> LowerChar(s[k])]

\* ''.join(c for c in text if c.isalnum()); plate_text if plate_text else None
Sanitize(text) ==
    LET plate_text == SelectSeq(text, IsAlnum)
    IN  IF plate_text # << >> THEN plate_text ELSE None

\* ------------------------------------------------------------- numpy slices
\* int(v) of a float v given in half pixels: truncation toward zero.
IntOf(h) == IF h >= 0 THEN h \div 2 ELSE -((-h) \div 2)

\* slice(a, b).indices(n): where a[..] of an axis of length n starts and stops.
SliceBound(a, n) == IF a < 0 THEN Max(a + n, 0) ELSE Min(a, n)
SliceLen(a, b, n) == Max(SliceBound(b, n) - SliceBound(a, n), 0)

\* ---------------------------------------------------------------- the detector
\* model.names: class id -> class name ("Plate", "car").
names == <<<<80, 108, 97, 116, 101>>, <<99, 97, 114>>>>

\* Box corners the detector may return, in half pixels <<x1, y1, x2, y2>>:
\* inside the image; thinner (lower) than a pixel, so that int() makes the
\* width (height) zero; reaching beyond the right edge; wholly beyond the
\* right edge; starting left of the image; wholly left of and above it.
Geoms ==
    { <<2, 2, 2 * W, 2 * H>>,
      <<2, 2, 3, 2 * H>>,
      <<2, 2, 2 * W, 3>>,
      <<2, 2, 2 * W + 4, 2 * H>>,
      <<2 * W + 2, 2, 2 * W + 4, 2 * H>>,
      <<-2, 2, 2 * W - 2, 2 * H>>,
      <<-4, -4, -2, -2>> }

\* Confidences (percent) of returned boxes: predict(conf=0.5) returns none below.
Confs == {50, 90}

\* Boxes of the class "Plate" in every place and with every confidence; boxes
\* of the other class inside the image or thinner than a pixel.
Box ==
    {b \in [g : Geoms, cls : 1..Len(names), conf : Confs] :
        b.cls = 1 \/ b.g \in {<<2, 2, 2 * W, 2 * H>>, <<2, 2, 3, 2 * H>>}}

RECURSIVE SeqsUpTo(_, _)
SeqsUpTo(S, n) ==
    IF n = 0 THEN {<< >>}
    ELSE LET shorter == SeqsUpTo(S, n - 1)
         IN  shorter \cup {Append(s, e) : s \in {t \in shorter : Len(t) = n - 1}, e \in S}

BoxSeqs == SeqsUpTo(Box, MaxBoxes)

\* What pytesseract.image_to_string does on a crop: raises, or returns text.
\* "A-1\n", "--" and "unreadable".
OcrTexts == { <<65, 45, 49, 10>>, <<45, 45>>, UNREADABLE }
OcrOutcomes ==
    {[raised |-> TRUE, text |-> << >>]} \cup {[raised |-> FALSE, text |-> t] : t \in OcrTexts}

\* Contents of a byte buffer, as far as cv2.imdecode tells them apart.
Bytes == {"empty", "garbage", "image"}

\* ------------------------------------------------------------------ state
VARIABLES
    kind,             \* entry point running: "upload", "telegram", "detect" or "idle"
    pc,               \* "idle", "predict", "loop", "done"; "sanitize", "sanitized"
    boxes,            \* the boxes model.predict returned
    i,                \* index into boxes of the next loop iteration
    detected_plates,  \* detected_plates / detections: the records so far
    annotated,        \* rectangles drawn on the copy of the image
    labels,           \* texts put on the copy of the image
    img_marks,        \* what has been drawn on img itself, the original
    files,            \* local files written by this request
    uploads,          \* file keys handed to upload_to_supabase_storage, in order
    ocrLog,           \* per call of run_ocr_on_crop: the box and what the engine did
    inserts,          \* rows handed to insert_plate_record, in order
    resp,             \* the response (return value), NoResp while running
    img_bytes,        \* the image bytes the route obtained, "None" when it got none
    raised,           \* the exception that reached the handler's except clause
    sanIn,            \* SanSpec: the raw text
    sanOut            \* SanSpec: what the sanitizer returned for it

\* ConcSpec: the workers of the server, each handling a request of its own.
VARIABLES
    now,              \* the clock, in whole seconds
    model,            \* the module-level detector object
    w_pc,             \* per worker: where its request stands
    w_camera_id,      \* per worker: camera_id of its request
    w_filename,       \* per worker: the timestamp its file names are made of
    w_plate_url,      \* per worker: plate_url of its record
    w_scene_url,      \* per worker: scene_url of its response
    disk,             \* local files: path -> the request whose image it holds
    storage           \* the bucket: key -> the request whose image it holds

\* StepSpec: one request of a route, statement by statement.
VARIABLES
    camera_id,        \* camera_id of the request
    ocr_text,         \* text: what image_to_string returned for the box at hand
    ocr_plate,        \* plate_text: what run_ocr_on_crop returned for it
    scene,            \* scene_url: the URL of the annotated image
    j,                \* index into detected_plates of the next record to insert
    db                \* the rows the table "violations" has taken

\* StartSpec: download_model, called when a process starts.
VARIABLES
    MODEL_URL,        \* the environment variable, "" when it is not set
    best_pt,          \* models/best.pt: "absent", or where its content is from
    models_dir,       \* whether the directory models exists
    calls,            \* how many times download_model has been called
    net_requests,     \* how many times requests.get has been called
    dm_variant,       \* the variant called last: "server" or "upload_model"
    dm_outcome        \* what that call did: "returned", or the exception raised

\* IdemSpec: the same image twice.
VARIABLES
    det,              \* what the detector returns for the image
    ocr,              \* what the OCR engine does for the crop of box k
    run,              \* 1 or 2: which run of the pipeline this is
    first             \* the first run as it ended, and what it left behind

\* SourceSpec: POST /upload from the request to the saved raw image.
VARIABLES
    request,          \* the HTTP request: content type, JSON body, form, files, raw body
    source,           \* source: where the image bytes were taken from, "None" before
    reads             \* the parts of the request whose image bytes were read, in order

sanVars == <<sanIn, sanOut>>
idemVars == <<det, ocr, run, first>>
srcVars == <<request, source, reads>>
startVars == <<MODEL_URL, best_pt, models_dir, calls, net_requests, dm_variant, dm_outcome>>
concVars == <<now, model, w_pc, w_camera_id, w_filename, w_plate_url, w_scene_url,
              disk, storage>>
stepVars == <<camera_id, ocr_text, ocr_plate, scene, j, db>>
auxVars == <<concVars, stepVars, startVars, idemVars, srcVars>>
otherVars == <<sanVars, auxVars>>

reqVars == <<kind, pc, boxes, i, detected_plates, annotated, labels, img_marks,
             files, uploads, ocrLog, inserts, resp, img_bytes, raised>>
vars == <<reqVars, sanVars, auxVars>>

\* What an action of ConcSpec, of StepSpec, of StartSpec leaves alone.
outsideConc == <<reqVars, sanVars, stepVars, startVars, idemVars, srcVars>>
outsideStep == <<sanVars, concVars, startVars, idemVars, srcVars>>
outsideStart == <<reqVars, sanVars, concVars, stepVars, idemVars, srcVars>>
outsideSource == <<sanVars, concVars, stepVars, startVars, idemVars>>

\* File keys: the raw image, the crop of box k (0-based, as enumerate counts),
\* its preprocessed debug image, the annotated scene.
RawFile == <<0>>
CropFile(k) == <<1, k - 1>>
DebugFile(k) == <<2, k - 1>>
AnnotatedFile == <<3>>

\* upload_to_supabase_storage: the public URL of the key, or None on any failure.
PublicUrl(key, ok) == IF ok THEN <<9>> \o key ELSE None

NoResp == [code |-> -1, status |-> "", via |-> "", plates |-> << >>, count |-> -1]
Response(code, status, via, plates, count) ==
    [code |-> code, status |-> status, via |-> via, plates |-> plates, count |-> count]

\* The state a handler starts from.
Fresh ==
    /\ boxes = << >>
    /\ i = 1
    /\ detected_plates = << >>
    /\ annotated = << >>
    /\ labels = << >>
    /\ img_marks = << >>
    /\ files = {}
    /\ uploads = << >>
    /\ ocrLog = << >>
    /\ inserts = << >>
    /\ resp = NoResp
    /\ img_bytes = "None"
    /\ raised = "None"

\* No worker has a request, nothing is on disk or in the bucket; the detector
\* is the one made at import: model = YOLO(model_path).
Workers == {"w1", "w2"}
YOLO == "YOLO(models/best.pt)"
ConcIdle ==
    /\ now = 0
    /\ model = YOLO
    /\ w_pc = [w \in Workers |-> "idle"]
    /\ w_camera_id = [w \in Workers |-> 0]
    /\ w_filename = [w \in Workers |-> -1]
    /\ w_plate_url = [w \in Workers |-> None]
    /\ w_scene_url = [w \in Workers |-> None]
    /\ disk = << >>
    /\ storage = << >>

\* The locals of a handler that has not run.
StepIdle ==
    /\ camera_id = None
    /\ ocr_text = None
    /\ ocr_plate = None
    /\ scene = None
    /\ j = 1
    /\ db = << >>

\* No run of the pipeline is being compared with another.
NoRun == [kind |-> "idle", boxes |-> << >>, records |-> << >>, files |-> {},
          uploads |-> << >>, resp |-> NoResp]
IdemIdle ==
    /\ det = << >>
    /\ ocr = << >>
    /\ run = 0
    /\ first = NoRun

\* No request has reached /upload.
NoRequest == [ctype |-> "none", json |-> "none", tg |-> "absent", image |-> "absent",
              file |-> "absent", data |-> "empty"]
SourceIdle ==
    /\ request = NoRequest
    /\ source = "None"
    /\ reads = << >>

\* The process has started: the model file is there, download_model has
\* returned its path.
StartIdle ==
    /\ MODEL_URL = ""
    /\ best_pt = "local"
    /\ models_dir = TRUE
    /\ calls = 0
    /\ net_requests = 0
    /\ dm_variant = "none"
    /\ dm_outcome = "none"

Init ==
    /\ kind = "idle"
    /\ pc = "idle"
    /\ Fresh
    /\ sanIn = << >>
    /\ sanOut = None
    /\ ConcIdle
    /\ StepIdle
    /\ SourceIdle
    /\ StartIdle
    /\ IdemIdle

\* ------------------------------------------------------------ entry points
CanStart == pc = "idle"

\* cv2.imdecode(np.frombuffer(img_bytes)): the image, or None.
\* (DecodesAnything: a decoder whose None result is not checked.)
DecodesAnything(bytes) == TRUE
Decodes(bytes) == bytes = "image"

\* A handler is entered: nothing detected, drawn or stored yet.
Begin(k) ==
    /\ kind' = k
    /\ boxes' = << >>
    /\ i' = 1
    /\ detected_plates' = << >>
    /\ annotated' = << >>
    /\ labels' = << >>
    /\ img_marks' = << >>
    /\ ocrLog' = << >>
    /\ inserts' = << >>

\* What a handler answers when an exception reaches its except clause:
\* upload_image 500, telegram_webhook 200 with status "error", detect_plates [].
\* (OnExceptionAlways500: every handler answering 500 from its except clause.)
OnExceptionAlways500(k) == Response(500, "error", "except", << >>, -1)
OnException(k) ==
    IF k = "upload" THEN Response(500, "error", "except", << >>, -1)
    ELSE IF k = "telegram" THEN Response(200, "error", "except", << >>, -1)
    ELSE Response(0, "returned", "except", << >>, -1)

\* The exception exc reaches the except clause of handler k, which answers.
\* (AbortUnanswered: the exception leaves the handler and nothing answers.)
AbortUnanswered(k, exc) ==
    /\ pc' = "crashed"
    /\ resp' = resp
    /\ raised' = exc
Abort(k, exc) ==
    /\ pc' = "done"
    /\ resp' = OnException(k)
    /\ raised' = exc

\* The handler returns r itself.
Return(r) ==
    /\ pc' = "done"
    /\ resp' = r
    /\ raised' = "None"

\* upload_image, from the request to the saved raw image: the source of the
\* image bytes by priority, the emptiness check, the decoding.
\*   tg: a non-empty telegram_file_id; dl: what the Telegram download gives;
\*   hasImage, hasFile: the multipart fields "image" and "file" present;
\*   imageBytes, fileBytes: their content; data: the raw body.
UploadReceive ==
    /\ CanStart
    /\ \E tg \in BOOLEAN, dl \in {"raise"} \cup Bytes, hasImage \in BOOLEAN,
          imageBytes \in Bytes, hasFile \in BOOLEAN, fileBytes \in Bytes, data \in Bytes :
        LET src == IF tg THEN "telegram"
                   ELSE IF hasImage \/ hasFile THEN "direct_upload"
                   ELSE IF data # "empty" THEN "raw_data"
                   ELSE "None"
            bytes == IF tg THEN dl
                     ELSE IF hasImage THEN imageBytes
                     ELSE IF hasFile THEN fileBytes
                     ELSE data
        IN  /\ Begin("upload")
            /\ uploads' = << >>
            /\ IF tg /\ dl = "raise"
               THEN \* download_image_from_telegram re-raises: the handler's except
                    /\ img_bytes' = "None"
                    /\ files' = {}
                    /\ Abort("upload", "download")
               ELSE IF src = "None"
               THEN /\ img_bytes' = "None"
                    /\ files' = {}
                    /\ Return(Response(400, "error", "return", << >>, -1))
               ELSE IF bytes = "empty" \/ ~Decodes(bytes)
               THEN /\ img_bytes' = bytes
                    /\ files' = {}
                    /\ Return(Response(400, "error", "return", << >>, -1))
               ELSE /\ img_bytes' = bytes
                    /\ files' = {RawFile}
                    /\ pc' = "predict"
                    /\ resp' = NoResp
                    /\ raised' = "None"
    /\ UNCHANGED otherVars

\* telegram_webhook, from the update to the saved and uploaded raw image.
\*   body: what the update holds; dl: what the Telegram download gives;
\*   emptyRaises: whether this build's cv2.imdecode raises on an empty buffer
\*   (it returns None otherwise). The URL of the uploaded raw image is only
\*   logged.
TelegramReceive ==
    /\ CanStart
    /\ \E body \in {"notjson", "nophoto", "nofileid", "photo"},
          dl \in {"raise"} \cup Bytes, emptyRaises \in BOOLEAN :
        /\ Begin("telegram")
        /\ IF body = "notjson"
           THEN /\ img_bytes' = "None"
                /\ files' = {}
                /\ uploads' = << >>
                /\ Abort("telegram", "json")
           ELSE IF body \in {"nophoto", "nofileid"}
           THEN /\ img_bytes' = "None"
                /\ files' = {}
                /\ uploads' = << >>
                /\ Return(Response(200, "ok", "return", << >>, -1))
           ELSE IF dl = "raise"
           THEN /\ img_bytes' = "None"
                /\ files' = {}
                /\ uploads' = << >>
                /\ Abort("telegram", "download")
           ELSE IF dl = "empty" /\ emptyRaises
           THEN /\ img_bytes' = dl
                /\ files' = {}
                /\ uploads' = << >>
                /\ Abort("telegram", "imdecode")
           ELSE IF ~Decodes(dl)
           THEN /\ img_bytes' = dl
                /\ files' = {}
                /\ uploads' = << >>
                /\ Return(Response(200, "error", "return", << >>, -1))
           ELSE /\ img_bytes' = dl
                /\ files' = {RawFile}
                /\ uploads' = <<RawFile>>
                /\ pc' = "predict"
                /\ resp' = NoResp
                /\ raised' = "None"
    /\ UNCHANGED otherVars

\* detect_plates(model, img) is called with a decoded image.
DetectCall ==
    /\ CanStart
    /\ Begin("detect")
    /\ pc' = "predict"
    /\ files' = {}
    /\ uploads' = << >>
    /\ resp' = NoResp
    /\ img_bytes' = "image"
    /\ raised' = "None"
    /\ UNCHANGED otherVars

\* ---------------------------------------------------------------- detection
\* model.predict(img, conf=0.5, ...): raises, or returns the boxes.
PredictRaises ==
    /\ pc = "predict"
    /\ Abort(kind, "predict")
    /\ UNCHANGED <<kind, boxes, i, detected_plates, annotated, labels, img_marks, files, uploads,
                   ocrLog, inserts, img_bytes>>
    /\ UNCHANGED otherVars

PredictFrom(results) ==
    /\ pc = "predict"
    /\ \E bs \in results : boxes' = bs
    /\ pc' = "loop"
    /\ UNCHANGED <<kind, i, detected_plates, annotated, labels, img_marks, files, uploads,
                   ocrLog, inserts, resp, img_bytes, raised>>
    /\ UNCHANGED otherVars

Predict == PredictFrom(BoxSeqs)

\* ------------------------------------------------------------- one box
\* x1, y1, x2, y2 = map(int, box[:4])
X1(b) == IntOf(b.g[1])
Y1(b) == IntOf(b.g[2])
X2(b) == IntOf(b.g[3])
Y2(b) == IntOf(b.g[4])
Rect(b) == <<X1(b), Y1(b), X2(b), Y2(b)>>

\* if x2 <= x1 or y2 <= y1: continue
Degenerate(b) == X2(b) <= X1(b) \/ Y2(b) <= Y1(b)

\* class_name.lower() != "plate" is what skips a box.
IsPlate(b) == Lower(names[b.cls]) = PLATE

\* The loop's "continue" conditions: both checks in server.py, the class
\* check alone in detect_plates.
Skipped(k, b) ==
    IF k = "detect" THEN ~IsPlate(b) ELSE Degenerate(b) \/ ~IsPlate(b)

\* crop = img[y1:y2, x1:x2]: the pixels the slice selects, <<left, top, right,
\* bottom>>, and whether there are none. cv2.imwrite raises on an empty image.
CropRegion(b) ==
    <<SliceBound(X1(b), W), SliceBound(Y1(b), H), SliceBound(X2(b), W), SliceBound(Y2(b), H)>>
CropEmpty(b) == SliceLen(Y1(b), Y2(b), H) = 0 \/ SliceLen(X1(b), X2(b), W) = 0

\* run_ocr_on_crop: the engine's exception is caught and None returned,
\* else the sanitized text. raised: whether the call itself raises.
\* (RunOcrOnCropNoTry: the same without the try/except.)
RunOcrOnCropNoTry(out) ==
    [raised |-> out.raised, value |-> IF out.raised THEN None ELSE Sanitize(out.text)]
RunOcrOnCrop(out) ==
    [raised |-> FALSE, value |-> IF out.raised THEN None ELSE Sanitize(out.text)]

\* plate_text or "unreadable"
\* (OrUnreadableKept: the text stored as run_ocr_on_crop returned it.)
OrUnreadableKept(t) == t
OrUnreadable(t) == IF t = None \/ t = << >> THEN UNREADABLE ELSE t

\* cv2.putText(annotated, f"{class_name} {confidence:.2f}", (x1, y1 - 8), ...)
Label(b) == [name |-> names[b.cls], conf |-> b.conf, at |-> <<X1(b), Y1(b) - 8>>]

\* annotated = img.copy(): what is drawn on annotated leaves img as it was.
\* (ImgAfterDrawShared: annotated = img, one array under two names.)
ImgAfterDrawShared(marks, rect) == Append(marks, rect)
ImgAfterDraw(marks, rect) == marks

\* The record appended for box k.
\* (ServerRecordByUrl: the text kept only when the crop was uploaded.)
ServerRecordByUrl(k, text, url) ==
    [file |-> CropFile(k),
     text |-> IF url = None THEN UNREADABLE ELSE OrUnreadable(text),
     plate_url |-> url, confidence |-> boxes[k].conf]
ServerRecord(k, text, url) ==
    [file |-> CropFile(k), text |-> OrUnreadable(text), plate_url |-> url,
     confidence |-> boxes[k].conf]
DetectRecord(k, text) ==
    [file |-> CropFile(k), confidence |-> boxes[k].conf,
     plate_text |-> OrUnreadable(text), crop_path |-> CropFile(k)]

\* One iteration of "for i, box in enumerate(boxes)" in upload_image and in
\* telegram_webhook.
ServerBox ==
    /\ pc = "loop"
    /\ kind \in {"upload", "telegram"}
    /\ i <= Len(boxes)
    /\ LET b == boxes[i]
       IN  IF Skipped(kind, b)
           THEN /\ i' = i + 1
                /\ UNCHANGED <<pc, detected_plates, annotated, labels, img_marks, files, uploads, ocrLog,
                               resp, raised>>
           ELSE /\ annotated' = Append(annotated, Rect(b))
                /\ labels' = Append(labels, Label(b))
                /\ img_marks' = ImgAfterDraw(img_marks, Rect(b))
                /\ IF CropEmpty(b)
                   THEN /\ Abort(kind, "imwrite")
                        /\ UNCHANGED <<i, detected_plates, files, uploads, ocrLog>>
                   ELSE \E out \in OcrOutcomes, ok \in BOOLEAN :
                        LET r == RunOcrOnCrop(out)
                        IN  /\ ocrLog' = Append(ocrLog, [box |-> i, out |-> out])
                            /\ files' = files \cup {CropFile(i), DebugFile(i)}
                            /\ IF r.raised
                               THEN /\ Abort(kind, "ocr")
                                    /\ UNCHANGED <<i, detected_plates, uploads>>
                               ELSE /\ uploads' = Append(uploads, CropFile(i))
                                    /\ detected_plates' =
                                         Append(detected_plates,
                                                ServerRecord(i, r.value, PublicUrl(CropFile(i), ok)))
                                    /\ i' = i + 1
                                    /\ UNCHANGED <<pc, resp, raised>>
    /\ UNCHANGED <<kind, boxes, inserts, img_bytes>>
    /\ UNCHANGED otherVars

\* One iteration of "for i, box in enumerate(boxes)" in detect_plates.
DetectBox ==
    /\ pc = "loop"
    /\ kind = "detect"
    /\ i <= Len(boxes)
    /\ LET b == boxes[i]
       IN  IF Skipped(kind, b)
           THEN /\ i' = i + 1
                /\ UNCHANGED <<pc, detected_plates, files, ocrLog, resp, raised>>
           ELSE IF CropEmpty(b)
           THEN /\ Abort(kind, "imwrite")
                /\ UNCHANGED <<i, detected_plates, files, ocrLog>>
           ELSE \E out \in OcrOutcomes :
                LET r == RunOcrOnCrop(out)
                IN  /\ ocrLog' = Append(ocrLog, [box |-> i, out |-> out])
                    /\ files' = files \cup {CropFile(i)}
                    /\ IF r.raised
                       THEN /\ Abort(kind, "ocr")
                            /\ UNCHANGED <<i, detected_plates>>
                       ELSE /\ detected_plates' =
                                 Append(detected_plates, DetectRecord(i, r.value))
                            /\ i' = i + 1
                            /\ UNCHANGED <<pc, resp, raised>>
    /\ UNCHANGED <<kind, boxes, annotated, labels, img_marks, uploads, inserts, img_bytes>>
    /\ UNCHANGED otherVars

\* ------------------------------------------------------- after the loop
\* The row insert_plate_record builds.
\* (RowUrlsSwapped: the two URLs in each other's column.)
RowUrlsSwapped(text, confidence, plate_url, scene_url) ==
    [plate_text |-> text, confidence |-> confidence, plate_url |-> scene_url,
     scene_url |-> plate_url]
Row(text, confidence, plate_url, scene_url) ==
    [plate_text |-> text, confidence |-> confidence, plate_url |-> plate_url,
     scene_url |-> scene_url]

\* The rows for the records: one per record, or the placeholder when there is none.
\* (RowsForRecordsOnly: the same without the placeholder row.)
RowsForRecordsOnly(recs, scene_url) ==
    [k \in 1..Len(recs) |->
        Row(recs[k].text, recs[k].confidence, recs[k].plate_url, scene_url)]
RowsFor(recs, scene_url) ==
    IF recs = << >>
    THEN <<Row(NO_PLATE_DETECTED, 0, None, scene_url)>>
    ELSE [k \in 1..Len(recs) |->
            Row(recs[k].text, recs[k].confidence, recs[k].plate_url, scene_url)]

\* The success response of the two routes.
Success(k, recs) ==
    IF k = "upload"
    THEN IF recs = << >>
         THEN Response(200, "no_plate_detected", "return", << >>, -1)
         ELSE Response(200, "ok", "return", recs, -1)
    ELSE Response(200, "ok", "return", << >>, Len(recs))

\* upload_image and telegram_webhook after the loop: the annotated image is
\* written and uploaded, the rows inserted, the response returned.
ServerFinish ==
    /\ pc = "loop"
    /\ kind \in {"upload", "telegram"}
    /\ i > Len(boxes)
    /\ \E ok \in BOOLEAN :
        /\ files' = files \cup {AnnotatedFile}
        /\ uploads' = Append(uploads, AnnotatedFile)
        /\ inserts' = RowsFor(detected_plates, PublicUrl(AnnotatedFile, ok))
    /\ Return(Success(kind, detected_plates))
    /\ UNCHANGED <<kind, boxes, i, detected_plates, annotated, labels, img_marks, ocrLog, img_bytes>>
    /\ UNCHANGED otherVars

\* detect_plates returns its detections.
DetectFinish ==
    /\ pc = "loop"
    /\ kind = "detect"
    /\ i > Len(boxes)
    /\ Return(Response(0, "returned", "return", detected_plates, -1))
    /\ UNCHANGED <<kind, boxes, i, detected_plates, annotated, labels, img_marks, files, uploads,
                   ocrLog, inserts, img_bytes>>
    /\ UNCHANGED otherVars

\* The response is sent and the handler's locals are dropped: the worker
\* waits for the next request.
NextRequest ==
    /\ pc = "done"
    /\ pc' = "idle"
    /\ Begin("idle")
    /\ files' = {}
    /\ uploads' = << >>
    /\ resp' = NoResp
    /\ img_bytes' = "None"
    /\ raised' = "None"
    /\ UNCHANGED otherVars

Next ==
    \/ NextRequest
    \/ UploadReceive
    \/ TelegramReceive
    \/ DetectCall
    \/ PredictRaises
    \/ Predict
    \/ ServerBox
    \/ DetectBox
    \/ ServerFinish
    \/ DetectFinish

Spec == Init /\ [][Next]_vars

\* ---------------------------------------------------- the sanitizer alone
\* Every raw text of at most MaxLen characters of Alphabet is sanitized, as
\* run_ocr_on_crop does with what the engine returned.
RawTexts == SeqsUpTo(Alphabet, MaxLen)

SanInit ==
    /\ kind = "idle"
    /\ pc = "sanitize"
    /\ Fresh
    /\ sanIn \in RawTexts
    /\ sanOut = None
    /\ ConcIdle
    /\ StepIdle
    /\ SourceIdle
    /\ StartIdle
    /\ IdemIdle

SanApply ==
    /\ pc = "sanitize"
    /\ sanOut' = Sanitize(sanIn)
    /\ pc' = "sanitized"
    /\ UNCHANGED <<kind, boxes, i, detected_plates, annotated, labels, img_marks, files, uploads, ocrLog,
                   inserts, resp, img_bytes, raised, sanIn>>
    /\ UNCHANGED auxVars

SanNext == SanApply

SanSpec == SanInit /\ [][SanNext]_vars

\* ------------------------------------------------- several requests at once
\* The workers of the server run upload_image side by side: the clock, the
\* detector, the local directories and the bucket are what they share. Each
\* request here has one plate box. A stored image is named by the request it
\* shows.
MaxClock == 1
\* camera_id "CAM1", "CAM2", by their numbers.
Cameras == {1, 2}

\* The path of a file of the request whose names are made of timestamp ts:
\* uploads/<ts>.jpg, cropped_plates/<ts>_plate_0.jpg, annotated/<ts>_annotated.jpg.
PathOf(ts, file) == <<ts>> \o file

\* file_key = f"{folder}/{Path(local_path).name}"
FileKey(folder, path) == <<folder>> \o path

\* f[x] becomes v.
Put(f, x, v) == (x :> v) @@ f

Stage(w, from, to) ==
    /\ w_pc[w] = from
    /\ w_pc' = [w_pc EXCEPT ![w] = to]

\* The clock moves on.
Tick ==
    /\ now < MaxClock
    /\ now' = now + 1
    /\ UNCHANGED <<model, w_pc, w_camera_id, w_filename, w_plate_url, w_scene_url,
                   disk, storage>>
    /\ UNCHANGED outsideConc

\* A request with a decodable image reaches worker w.
Decode(w) ==
    /\ Stage(w, "idle", "decoded")
    /\ \E c \in Cameras : w_camera_id' = [w_camera_id EXCEPT ![w] = c]
    /\ UNCHANGED <<now, model, w_filename, w_plate_url, w_scene_url, disk, storage>>
    /\ UNCHANGED outsideConc

\* filename = datetime.now().strftime("%Y%m%d_%H%M%S.jpg"); cv2.imwrite(save_path, img)
SaveRaw(w) ==
    /\ Stage(w, "decoded", "saved")
    /\ w_filename' = [w_filename EXCEPT ![w] = now]
    /\ disk' = Put(disk, PathOf(now, RawFile), w)
    /\ UNCHANGED <<now, model, w_camera_id, w_plate_url, w_scene_url, storage>>
    /\ UNCHANGED outsideConc

\* What lets worker w call model.predict: that it got there.
\* (MayEnterPredictLocked: the call under a lock around the detector.)
MayEnterPredictLocked(w) == \A v \in Workers : w_pc[v] # "predicting"
MayEnterPredict(w) == TRUE

\* results = model.predict(img, ...): the call, and its return.
EnterPredict(w) ==
    /\ MayEnterPredict(w)
    /\ Stage(w, "saved", "predicting")
    /\ UNCHANGED <<now, model, w_camera_id, w_filename, w_plate_url, w_scene_url,
                   disk, storage>>
    /\ UNCHANGED outsideConc

LeavePredict(w) ==
    /\ Stage(w, "predicting", "crop")
    /\ UNCHANGED <<now, model, w_camera_id, w_filename, w_plate_url, w_scene_url,
                   disk, storage>>
    /\ UNCHANGED outsideConc

\* crop = img[y1:y2, x1:x2]; cv2.imwrite(crop_path, crop)
WriteCrop(w) ==
    /\ Stage(w, "crop", "cropped")
    /\ disk' = Put(disk, PathOf(w_filename[w], CropFile(1)), w)
    /\ UNCHANGED <<now, model, w_camera_id, w_filename, w_plate_url, w_scene_url, storage>>
    /\ UNCHANGED outsideConc

\* upload_to_supabase_storage(local_path, camera_id): the file is read back
\* from disk and put under its key, replacing what was there (upsert=True);
\* the public URL of the key is returned, or None when the upload failed.
UploadToSupabaseStorage(w, path, ok) ==
    LET key == FileKey(w_camera_id[w], path)
    IN  [url |-> IF ok THEN key ELSE None,
         bucket |-> IF ok THEN Put(storage, key, disk[path]) ELSE storage]

\* plate_url = upload_to_supabase_storage(crop_path, camera_id)
UploadCrop(w) ==
    /\ Stage(w, "cropped", "annotate")
    /\ \E ok \in BOOLEAN :
        LET up == UploadToSupabaseStorage(w, PathOf(w_filename[w], CropFile(1)), ok)
        IN  /\ w_plate_url' = [w_plate_url EXCEPT ![w] = up.url]
            /\ storage' = up.bucket
    /\ UNCHANGED <<now, model, w_camera_id, w_filename, w_scene_url, disk>>
    /\ UNCHANGED outsideConc

\* cv2.imwrite(ann_path, annotated)
WriteAnnotated(w) ==
    /\ Stage(w, "annotate", "annotated")
    /\ disk' = Put(disk, PathOf(w_filename[w], AnnotatedFile), w)
    /\ UNCHANGED <<now, model, w_camera_id, w_filename, w_plate_url, w_scene_url, storage>>
    /\ UNCHANGED outsideConc

\* scene_url = upload_to_supabase_storage(ann_path, camera_id)
UploadAnnotated(w) ==
    /\ Stage(w, "annotated", "persist")
    /\ \E ok \in BOOLEAN :
        LET up == UploadToSupabaseStorage(w, PathOf(w_filename[w], AnnotatedFile), ok)
        IN  /\ w_scene_url' = [w_scene_url EXCEPT ![w] = up.url]
            /\ storage' = up.bucket
    /\ UNCHANGED <<now, model, w_camera_id, w_filename, w_plate_url, disk>>
    /\ UNCHANGED outsideConc

\* The row is inserted and the response, with plate_url and scene_url, sent.
Respond(w) ==
    /\ Stage(w, "persist", "done")
    /\ UNCHANGED <<now, model, w_camera_id, w_filename, w_plate_url, w_scene_url,
                   disk, storage>>
    /\ UNCHANGED outsideConc

ConcInit ==
    /\ kind = "idle"
    /\ pc = "idle"
    /\ Fresh
    /\ sanIn = << >>
    /\ sanOut = None
    /\ ConcIdle
    /\ StepIdle
    /\ SourceIdle
    /\ StartIdle
    /\ IdemIdle

ConcNext ==
    \/ Tick
    \/ \E w \in Workers :
        \/ Decode(w)
        \/ SaveRaw(w)
        \/ EnterPredict(w)
        \/ LeavePredict(w)
        \/ WriteCrop(w)
        \/ UploadCrop(w)
        \/ WriteAnnotated(w)
        \/ UploadAnnotated(w)
        \/ Respond(w)

ConcSpec == ConcInit /\ [][ConcNext]_vars

\* ------------------------------------------- one request, statement by statement
\* upload_image and telegram_webhook again, one action per statement that
\* calls a collaborator, with the camera, the storage and the table in view.
\* The detector returns plate boxes inside the image, wholly outside of it,
\* and boxes of the other class; the OCR engine raises or reads "A-1\n".
StepGeoms == { <<2, 2, 2*W, 2*H>>, <<2, 2, 3, 2*H>>, <<2*W + 2, 2, 2*W + 4, 2*H>> }
StepBoxSeqs == SeqsUpTo({b \in Box : b.g \in StepGeoms}, MaxBoxes)
StepOcrOutcomes == {o \in OcrOutcomes : o.raised \/ o.text = <<65, 45, 49, 10>>}
Chats == {7}

\* camera_id of /upload (form field, header, JSON field or "CAM1"), and
\* f"TELEGRAM_{chat_id}".
UploadCamera(c) == <<0, c>>
TelegramCamera(chat_id) == <<1, chat_id>>

\* Where upload_image takes the image bytes from, by priority, and the bytes.
SourceOf(tg, hasImage, hasFile, data) ==
    IF tg THEN "telegram"
    ELSE IF hasImage \/ hasFile THEN "direct_upload"
    ELSE IF data # "empty" THEN "raw_data"
    ELSE "None"
BytesOf(tg, dl, hasImage, imageBytes, hasFile, fileBytes, data) ==
    IF tg THEN dl
    ELSE IF hasImage THEN imageBytes
    ELSE IF hasFile THEN fileBytes
    ELSE data

\* upload_to_supabase_storage(local_path, camera_id): the public URL, or None
\* on any failure; the call itself does not raise.
\* (StorageUploadNoTry: the same without the try/except.)
StorageUploadNoTry(key, ok) == [raised |-> ~ok, value |-> PublicUrl(key, ok)]
StorageUpload(key, ok) == [raised |-> FALSE, value |-> PublicUrl(key, ok)]

\* insert_plate_record(camera_id, plate_text, confidence, plate_url, scene_url):
\* the row it builds, True when the table took it and False on any failure.
\* (InsertPlateRecordNoTry: the same without the try/except.)
InsertPlateRecordNoTry(camera, row, dbOk) ==
    [raised |-> ~dbOk, value |-> dbOk,
     row |-> [camera_id |-> camera, plate_text |-> row.plate_text,
              confidence |-> row.confidence, plate_url |-> row.plate_url,
              scene_url |-> row.scene_url, status |-> "new"]]
InsertPlateRecord(camera, row, dbOk) ==
    [raised |-> FALSE, value |-> dbOk,
     row |-> [camera_id |-> camera, plate_text |-> row.plate_text,
              confidence |-> row.confidence, plate_url |-> row.plate_url,
              scene_url |-> row.scene_url, status |-> "new"]]

\* upload_image up to the image bytes: camera_id, the source, the emptiness check.
UploadRequest ==
    /\ pc = "idle"
    /\ \E c \in Cameras, tg \in BOOLEAN, dl \in {"raise"} \cup Bytes, hasImage \in BOOLEAN,
          imageBytes \in Bytes, hasFile \in BOOLEAN, fileBytes \in Bytes, data \in Bytes :
        LET src == SourceOf(tg, hasImage, hasFile, data)
            bytes == BytesOf(tg, dl, hasImage, imageBytes, hasFile, fileBytes, data)
        IN  /\ Begin("upload")
            /\ camera_id' = UploadCamera(c)
            /\ files' = {}
            /\ uploads' = << >>
            /\ IF tg /\ dl = "raise"
               THEN /\ img_bytes' = "None"
                    /\ Abort("upload", "download")
               ELSE IF src = "None"
               THEN /\ img_bytes' = "None"
                    /\ Return(Response(400, "error", "return", << >>, -1))
               ELSE IF bytes = "empty"
               THEN /\ img_bytes' = bytes
                    /\ Return(Response(400, "error", "return", << >>, -1))
               ELSE /\ img_bytes' = bytes
                    /\ pc' = "decode"
                    /\ resp' = NoResp
                    /\ raised' = "None"
    /\ UNCHANGED <<ocr_text, ocr_plate, scene, j, db>>
    /\ UNCHANGED outsideStep

\* telegram_webhook up to the image bytes: the update, chat_id (of which
\* camera_id is made once the image is saved), the download.
TelegramRequest ==
    /\ pc = "idle"
    /\ \E body \in {"notjson", "nophoto", "nofileid", "photo"},
          dl \in {"raise"} \cup Bytes, chat_id \in Chats :
        /\ Begin("telegram")
        /\ files' = {}
        /\ uploads' = << >>
        /\ IF body = "notjson"
           THEN /\ img_bytes' = "None"
                /\ camera_id' = None
                /\ Abort("telegram", "json")
           ELSE IF body \in {"nophoto", "nofileid"}
           THEN /\ img_bytes' = "None"
                /\ camera_id' = None
                /\ Return(Response(200, "ok", "return", << >>, -1))
           ELSE IF dl = "raise"
           THEN /\ img_bytes' = "None"
                /\ camera_id' = None
                /\ Abort("telegram", "download")
           ELSE /\ img_bytes' = dl
                /\ camera_id' = TelegramCamera(chat_id)
                /\ pc' = "decode"
                /\ resp' = NoResp
                /\ raised' = "None"
    /\ UNCHANGED <<ocr_text, ocr_plate, scene, j, db>>
    /\ UNCHANGED outsideStep

\* img = cv2.imdecode(np.frombuffer(img_bytes, np.uint8), cv2.IMREAD_COLOR)
\* and the check of img: /upload answers 400, the webhook 200 "error"; on an
\* empty buffer the call raises in some builds (emptyRaises).
\* (DecodeImageSavedFirst: the raw image written before img is looked at.)
DecodeImageSavedFirst ==
    /\ pc = "decode"
    /\ files' = {RawFile}
    /\ \E emptyRaises \in BOOLEAN :
        IF img_bytes = "empty" /\ emptyRaises
        THEN Abort(kind, "imdecode")
        ELSE IF ~Decodes(img_bytes)
        THEN Return(Response(IF kind = "upload" THEN 400 ELSE 200, "error", "return", << >>, -1))
        ELSE /\ pc' = "save"
             /\ UNCHANGED <<resp, raised>>
    /\ UNCHANGED <<kind, boxes, i, detected_plates, annotated, labels, img_marks,
                   uploads, ocrLog, inserts, img_bytes>>
    /\ UNCHANGED stepVars
    /\ UNCHANGED outsideStep
DecodeImage ==
    /\ pc = "decode"
    /\ \E emptyRaises \in BOOLEAN :
        IF img_bytes = "empty" /\ emptyRaises
        THEN Abort(kind, "imdecode")
        ELSE IF ~Decodes(img_bytes)
        THEN Return(Response(IF kind = "upload" THEN 400 ELSE 200, "error", "return", << >>, -1))
        ELSE /\ pc' = "save"
             /\ UNCHANGED <<resp, raised>>
    /\ UNCHANGED <<kind, boxes, i, detected_plates, annotated, labels, img_marks, files,
                   uploads, ocrLog, inserts, img_bytes>>
    /\ UNCHANGED stepVars
    /\ UNCHANGED outsideStep

\* cv2.imwrite(save_path, img); the webhook uploads the raw image as well.
WriteRaw ==
    /\ pc = "save"
    /\ files' = {RawFile}
    /\ uploads' = IF kind = "telegram" THEN <<RawFile>> ELSE << >>
    /\ pc' = "predict"
    /\ UNCHANGED <<kind, boxes, i, detected_plates, annotated, labels, img_marks,
                   ocrLog, inserts, resp, img_bytes, raised>>
    /\ UNCHANGED stepVars
    /\ UNCHANGED outsideStep

\* results = model.predict(img, ...) returns.
Detect ==
    /\ pc = "predict"
    /\ \E bs \in StepBoxSeqs : boxes' = bs
    /\ pc' = "loop"
    /\ UNCHANGED <<kind, i, detected_plates, annotated, labels, img_marks, files, uploads,
                   ocrLog, inserts, resp, img_bytes, raised>>
    /\ UNCHANGED stepVars
    /\ UNCHANGED outsideStep

\* The head of an iteration: the two continue checks, then the rectangle and
\* the label on annotated.
CheckAndDraw ==
    /\ pc = "loop"
    /\ i <= Len(boxes)
    /\ LET b == boxes[i]
       IN  IF Skipped(kind, b)
           THEN /\ i' = i + 1
                /\ UNCHANGED <<pc, annotated, labels, img_marks>>
           ELSE /\ annotated' = Append(annotated, Rect(b))
                /\ labels' = Append(labels, Label(b))
                /\ img_marks' = ImgAfterDraw(img_marks, Rect(b))
                /\ pc' = "crop"
                /\ UNCHANGED i
    /\ UNCHANGED <<kind, boxes, detected_plates, files, uploads, ocrLog, inserts, resp,
                   img_bytes, raised>>
    /\ UNCHANGED stepVars
    /\ UNCHANGED outsideStep

\* crop = img[y1:y2, x1:x2]; cv2.imwrite(crop_path, crop)
CropBox ==
    /\ pc = "crop"
    /\ IF CropEmpty(boxes[i])
       THEN /\ Abort(kind, "imwrite")
            /\ UNCHANGED files
       ELSE /\ files' = files \cup {CropFile(i)}
            /\ pc' = "preprocess"
            /\ UNCHANGED <<resp, raised>>
    /\ UNCHANGED <<kind, boxes, i, detected_plates, annotated, labels, img_marks, uploads,
                   ocrLog, inserts, img_bytes>>
    /\ UNCHANGED stepVars
    /\ UNCHANGED outsideStep

\* run_ocr_on_crop: gray, threshold, blur, and the debug image written.
PreprocessCrop ==
    /\ pc = "preprocess"
    /\ files' = files \cup {DebugFile(i)}
    /\ pc' = "recognize"
    /\ UNCHANGED <<kind, boxes, i, detected_plates, annotated, labels, img_marks, uploads,
                   ocrLog, inserts, resp, img_bytes, raised>>
    /\ UNCHANGED stepVars
    /\ UNCHANGED outsideStep

\* run_ocr_on_crop: pytesseract.image_to_string(gray, ...); when it raises,
\* the except clause returns None.
Recognize ==
    /\ pc = "recognize"
    /\ \E out \in StepOcrOutcomes :
        /\ ocrLog' = Append(ocrLog, [box |-> i, out |-> out])
        /\ IF out.raised
           THEN /\ ocr_text' = None
                /\ ocr_plate' = None
                /\ pc' = "upload_crop"
           ELSE /\ ocr_text' = out.text
                /\ pc' = "sanitizing"
                /\ UNCHANGED ocr_plate
    /\ UNCHANGED <<kind, boxes, i, detected_plates, annotated, labels, img_marks, files,
                   uploads, inserts, resp, img_bytes, raised>>
    /\ UNCHANGED <<camera_id, scene, j, db>>
    /\ UNCHANGED outsideStep

\* run_ocr_on_crop: the alphanumeric characters of text, None when there is none.
SanitizeText ==
    /\ pc = "sanitizing"
    /\ ocr_plate' = Sanitize(ocr_text)
    /\ pc' = "upload_crop"
    /\ UNCHANGED <<kind, boxes, i, detected_plates, annotated, labels, img_marks, files,
                   uploads, ocrLog, inserts, resp, img_bytes, raised>>
    /\ UNCHANGED <<camera_id, ocr_text, scene, j, db>>
    /\ UNCHANGED outsideStep

\* plate_url = upload_to_supabase_storage(crop_path, camera_id), and the record
\* appended: the end of the iteration.
UploadCropFile ==
    /\ pc = "upload_crop"
    /\ \E ok \in BOOLEAN :
        LET up == StorageUpload(CropFile(i), ok)
        IN  IF up.raised
            THEN /\ Abort(kind, "upload")
                 /\ UNCHANGED <<i, detected_plates, uploads>>
            ELSE /\ uploads' = Append(uploads, CropFile(i))
                 /\ detected_plates' =
                      Append(detected_plates, ServerRecord(i, ocr_plate, up.value))
                 /\ i' = i + 1
                 /\ pc' = "loop"
                 /\ UNCHANGED <<resp, raised>>
    /\ UNCHANGED <<kind, boxes, annotated, labels, img_marks, files, ocrLog, inserts,
                   img_bytes>>
    /\ UNCHANGED stepVars
    /\ UNCHANGED outsideStep

\* After the loop: cv2.imwrite(ann_path, annotated);
\* scene_url = upload_to_supabase_storage(ann_path, camera_id)
SaveAnnotated ==
    /\ pc = "loop"
    /\ i > Len(boxes)
    /\ files' = files \cup {AnnotatedFile}
    /\ \E ok \in BOOLEAN :
        LET up == StorageUpload(AnnotatedFile, ok)
        IN  IF up.raised
            THEN /\ Abort(kind, "upload")
                 /\ UNCHANGED <<uploads, scene, j>>
            ELSE /\ uploads' = Append(uploads, AnnotatedFile)
                 /\ scene' = up.value
                 /\ j' = 1
                 /\ pc' = "insert"
                 /\ UNCHANGED <<resp, raised>>
    /\ UNCHANGED <<kind, boxes, i, detected_plates, annotated, labels, img_marks, ocrLog,
                   inserts, img_bytes>>
    /\ UNCHANGED <<camera_id, ocr_text, ocr_plate, db>>
    /\ UNCHANGED outsideStep

\* One call of insert_plate_record: for the placeholder when there is no
\* record, else for the next record.
InsertRecord ==
    /\ pc = "insert"
    /\ j <= Len(RowsFor(detected_plates, scene))
    /\ \E dbOk \in BOOLEAN :
        LET r == InsertPlateRecord(camera_id, RowsFor(detected_plates, scene)[j], dbOk)
        IN  IF r.raised
            THEN /\ Abort(kind, "insert")
                 /\ UNCHANGED <<inserts, j, db>>
            ELSE /\ inserts' = Append(inserts, r.row)
                 /\ db' = IF r.value THEN Append(db, r.row) ELSE db
                 /\ j' = j + 1
                 /\ UNCHANGED <<pc, resp, raised>>
    /\ UNCHANGED <<kind, boxes, i, detected_plates, annotated, labels, img_marks, files,
                   uploads, ocrLog, img_bytes>>
    /\ UNCHANGED <<camera_id, ocr_text, ocr_plate, scene>>
    /\ UNCHANGED outsideStep

\* The success response: return jsonify({...}), 200
Reply ==
    /\ pc = "insert"
    /\ j > Len(RowsFor(detected_plates, scene))
    /\ Return(Success(kind, detected_plates))
    /\ UNCHANGED <<kind, boxes, i, detected_plates, annotated, labels, img_marks, files,
                   uploads, ocrLog, inserts, img_bytes>>
    /\ UNCHANGED stepVars
    /\ UNCHANGED outsideStep

\* What the handler does once it has the request.
HandlerStep ==
    \/ DecodeImage
    \/ WriteRaw
    \/ PredictRaises
    \/ Detect
    \/ CheckAndDraw
    \/ CropBox
    \/ PreprocessCrop
    \/ Recognize
    \/ SanitizeText
    \/ UploadCropFile
    \/ SaveAnnotated
    \/ InsertRecord
    \/ Reply

StepNext ==
    \/ UploadRequest
    \/ TelegramRequest
    \/ HandlerStep

StepSpec == Init /\ [][StepNext]_vars

\* Every call the handler makes returns or raises, and the handler goes on.
FairStepSpec == StepSpec /\ WF_vars(HandlerStep)

\* The same handlers on a server that has served before: the table holds
\* nothing, or the row an earlier request without a plate left in it.
EarlierTables ==
    { << >>,
      <<InsertPlateRecord(UploadCamera(1), RowsFor(<< >>, None)[1], TRUE).row>> }
ServedInit ==
    /\ kind = "idle"
    /\ pc = "idle"
    /\ Fresh
    /\ sanIn = << >>
    /\ sanOut = None
    /\ ConcIdle
    /\ SourceIdle
    /\ StartIdle
    /\ IdemIdle
    /\ camera_id = None
    /\ ocr_text = None
    /\ ocr_plate = None
    /\ scene = None
    /\ j = 1
    /\ db \in EarlierTables
ServedSpec == ServedInit /\ [][StepNext]_vars

\* ------------------------------------------------------- download_model
\* The two variants of download_model, called up to MaxCalls times on one
\* machine, whose environment and disk may change between the calls.
MaxCalls == 3
Urls == {"", "https://host/best.pt"}
NetOutcomes == {"ok", "http_error", "no_connection"}

\* r = requests.get(model_url); r.raise_for_status(); the file written.
\* What the call leaves: the outcome and the file.
Fetch(net) ==
    IF net = "ok" THEN [outcome |-> "returned", file |-> "downloaded"]
    ELSE IF net = "http_error" THEN [outcome |-> "HTTPError", file |-> "absent"]
    ELSE [outcome |-> "ConnectionError", file |-> "absent"]

\* server.py, download_model(): MODEL_URL is read and checked first.
ServerDownloadModel ==
    /\ calls < MaxCalls
    /\ calls' = calls + 1
    /\ dm_variant' = "server"
    /\ \E net \in NetOutcomes :
        IF MODEL_URL = ""
        THEN /\ dm_outcome' = "ValueError"
             /\ UNCHANGED <<best_pt, models_dir, net_requests>>
        ELSE /\ models_dir' = TRUE
             /\ IF best_pt = "absent"
                THEN /\ net_requests' = net_requests + 1
                     /\ dm_outcome' = Fetch(net).outcome
                     /\ best_pt' = Fetch(net).file
                ELSE /\ dm_outcome' = "returned"
                     /\ UNCHANGED <<best_pt, net_requests>>
    /\ UNCHANGED MODEL_URL
    /\ UNCHANGED outsideStart

\* upload_model.py, download_model(model_url=None, local_path="models/best.pt"):
\* the file is looked for first.
UploadModelDownloadModel ==
    /\ calls < MaxCalls
    /\ calls' = calls + 1
    /\ dm_variant' = "upload_model"
    /\ models_dir' = TRUE
    /\ \E model_url \in Urls, net \in NetOutcomes :
        IF best_pt # "absent"
        THEN /\ dm_outcome' = "returned"
             /\ UNCHANGED <<best_pt, net_requests>>
        ELSE IF (IF model_url # "" THEN model_url ELSE MODEL_URL) = ""
        THEN /\ dm_outcome' = "ValueError"
             /\ UNCHANGED <<best_pt, net_requests>>
        ELSE /\ net_requests' = net_requests + 1
             /\ dm_outcome' = Fetch(net).outcome
             /\ best_pt' = Fetch(net).file
    /\ UNCHANGED MODEL_URL
    /\ UNCHANGED outsideStart

\* Between two starts the operator sets or unsets MODEL_URL, or removes the
\* model file.
SetModelUrl ==
    /\ \E u \in Urls : MODEL_URL' = u
    /\ MODEL_URL' # MODEL_URL
    /\ UNCHANGED <<best_pt, models_dir, calls, net_requests, dm_variant, dm_outcome>>
    /\ UNCHANGED outsideStart

RemoveModelFile ==
    /\ best_pt # "absent"
    /\ best_pt' = "absent"
    /\ UNCHANGED <<MODEL_URL, models_dir, calls, net_requests, dm_variant, dm_outcome>>
    /\ UNCHANGED outsideStart

\* A machine on which download_model has not been called yet.
StartInit ==
    /\ kind = "idle"
    /\ pc = "idle"
    /\ Fresh
    /\ sanIn = << >>
    /\ sanOut = None
    /\ ConcIdle
    /\ StepIdle
    /\ SourceIdle
    /\ IdemIdle
    /\ MODEL_URL \in Urls
    /\ best_pt \in {"absent", "local"}
    /\ models_dir \in BOOLEAN
    /\ best_pt = "local" => models_dir
    /\ calls = 0
    /\ net_requests = 0
    /\ dm_variant = "none"
    /\ dm_outcome = "none"

StartNext ==
    \/ ServerDownloadModel
    \/ UploadModelDownloadModel
    \/ SetModelUrl
    \/ RemoveModelFile

StartSpec == StartInit /\ [][StartNext]_vars

\* ------------------------------------------------------ the same image twice
\* One entry point is run twice on the same decodable image, with a detector
\* and an OCR engine that are deterministic: det and ocr are fixed for the
\* image. What storage does, and how /upload got the bytes, is free in each
\* run. The first run's files and uploads stay where they are.
IdemBoxes ==
    {b \in Box : \/ b.g = <<2, 2, 2*W, 2*H>>
                 \/ (b.g \in {<<2, 2, 3, 2*H>>, <<2*W + 2, 2, 2*W + 4, 2*H>>}
                        /\ b.cls = 1 /\ b.conf = 50)}
IdemBoxSeqs == SeqsUpTo(IdemBoxes, MaxBoxes)

IdemInit ==
    /\ kind = "idle"
    /\ pc = "idle"
    /\ Fresh
    /\ sanIn = << >>
    /\ sanOut = None
    /\ ConcIdle
    /\ StepIdle
    /\ SourceIdle
    /\ StartIdle
    /\ det \in IdemBoxSeqs
    /\ ocr \in [1..MaxBoxes -> StepOcrOutcomes]
    /\ run = 1
    /\ first = NoRun

\* The second run enters where the first did, with the same bytes.
SameEntry(k) == (run = 1 \/ first.kind = k) /\ img_bytes' = "image"

\* The engine does for the crop of box i what it does for that crop.
SameOcr == ocrLog' # ocrLog => ocrLog'[Len(ocrLog')].out = ocr[i]

UploadSameImage == UploadReceive /\ SameEntry("upload")
TelegramSameImage == TelegramReceive /\ SameEntry("telegram")
DetectSameImage == DetectCall /\ SameEntry("detect")
PredictSame == PredictFrom({det})
ServerBoxSame == ServerBox /\ SameOcr
DetectBoxSame == DetectBox /\ SameOcr

\* The first run has ended: it is kept for comparison, with the files and
\* uploads it left, and the handler's locals are dropped.
SecondRun ==
    /\ pc = "done"
    /\ run = 1
    /\ run' = 2
    /\ first' = [kind |-> kind, boxes |-> boxes, records |-> detected_plates,
                 files |-> files, uploads |-> uploads, resp |-> resp]
    /\ pc' = "idle"
    /\ Begin("idle")
    /\ files' = {}
    /\ uploads' = << >>
    /\ resp' = NoResp
    /\ img_bytes' = "None"
    /\ raised' = "None"
    /\ UNCHANGED <<det, ocr>>
    /\ UNCHANGED <<sanVars, concVars, stepVars, startVars, srcVars>>

IdemNext ==
    \/ UploadSameImage
    \/ TelegramSameImage
    \/ DetectSameImage
    \/ PredictSame
    \/ ServerBoxSame
    \/ DetectBoxSame
    \/ ServerFinish
    \/ DetectFinish
    \/ SecondRun

IdemSpec == IdemInit /\ [][IdemNext]_vars

\* ----------------------------------------------- the three copies compared
\* Two of detect_plates, upload_image and telegram_webhook are run one after
\* the other on the same decodable image, with the detector output det and
\* the OCR outcomes ocr of IdemSpec: the second run enters another copy.
OtherEntry(k) == (run = 1 \/ first.kind # k) /\ img_bytes' = "image"

UploadCopy == UploadReceive /\ OtherEntry("upload")
TelegramCopy == TelegramReceive /\ OtherEntry("telegram")
DetectCopy == DetectCall /\ OtherEntry("detect")

CopiesNext ==
    \/ UploadCopy
    \/ TelegramCopy
    \/ DetectCopy
    \/ PredictSame
    \/ ServerBoxSame
    \/ DetectBoxSame
    \/ ServerFinish
    \/ DetectFinish
    \/ SecondRun

CopiesSpec == IdemInit /\ [][CopiesNext]_vars

\* ------------------------------------------------- the source of the image
\* POST /upload from the request to the saved raw image, statement by
\* statement. The request has a content type: JSON (request.is_json), a form
\* (multipart or urlencoded: request.form and request.files hold its fields
\* and request.data is empty), or any other (the body is request.data).
\*   json: what request.get_json() meets: text that is no JSON (the empty body
\*         too), a JSON value that is no object, or an object;
\*   tg: the field telegram_file_id: absent, the empty string, or an id;
\*   image, file: the multipart file fields, absent or their content;
\*   data: request.data. The text of a JSON body is no image.
WellFormed(r) ==
    /\ r.ctype = "json" =>
         /\ r.json # "none"
         /\ r.json # "object" => r.tg = "absent"
         /\ r.json # "invalid" => r.data = "garbage"
         /\ r.image = "absent" /\ r.file = "absent"
    /\ r.ctype = "form" => r.json = "none" /\ r.data = "empty"
    /\ r.ctype = "other" =>
         r.json = "none" /\ r.tg = "absent" /\ r.image = "absent" /\ r.file = "absent"
Requests ==
    {r \in [ctype : {"json", "form", "other"},
            json : {"none", "invalid", "notobject", "object"},
            tg : {"absent", "empty", "id"},
            image : {"absent"} \cup Bytes,
            file : {"absent"} \cup Bytes,
            data : Bytes] : WellFormed(r)}

\* telegram_file_id as the handler has it after reading the fields:
\* json_data.get("telegram_file_id") of a JSON request, else
\* request.form.get("telegram_file_id"); and `if telegram_file_id:`.
TelegramFileId(r) == r.tg
Truthy(id) == id = "id"

\* The request arrives; nothing of it has been looked at.
Post ==
    /\ pc = "idle"
    /\ request' \in Requests
    /\ source' = "None"
    /\ reads' = << >>
    /\ Begin("upload")
    /\ files' = {}
    /\ uploads' = << >>
    /\ resp' = NoResp
    /\ img_bytes' = "None"
    /\ raised' = "None"
    /\ pc' = "fields"
    /\ UNCHANGED outsideSource

\* camera_id and telegram_file_id. request.get_json() raises BadRequest on a
\* body that is no JSON, json_data.get raises AttributeError on a JSON value
\* that is no object; both reach the handler's except clause.
ReadFields ==
    /\ pc = "fields"
    /\ IF request.ctype = "json" /\ request.json = "invalid"
       THEN Abort("upload", "json")
       ELSE IF request.ctype = "json" /\ request.json = "notobject"
       THEN Abort("upload", "attribute")
       ELSE /\ pc' = "choose"
            /\ UNCHANGED <<resp, raised>>
    /\ UNCHANGED <<kind, boxes, i, detected_plates, annotated, labels, img_marks, files,
                   uploads, ocrLog, inserts, img_bytes>>
    /\ UNCHANGED srcVars
    /\ UNCHANGED outsideSource

\* The if/elif chain that takes the image bytes: telegram_file_id, the file
\* field "image", the file field "file", request.data, else 400.
Chain(r) ==
    IF Truthy(TelegramFileId(r)) THEN "telegram_file_id"
    ELSE IF r.image # "absent" THEN "image"
    ELSE IF r.file # "absent" THEN "file"
    ELSE IF r.data # "empty" THEN "data"
    ELSE "None"

ChooseSource ==
    /\ pc = "choose"
    /\ \E dl \in {"raise"} \cup Bytes :
        LET part == Chain(request)
        IN  /\ reads' = IF part = "None" THEN reads ELSE Append(reads, part)
            /\ IF part = "telegram_file_id" /\ dl = "raise"
               THEN /\ Abort("upload", "download")
                    /\ UNCHANGED <<img_bytes, source>>
               ELSE IF part = "None"
               THEN /\ Return(Response(400, "error", "return", << >>, -1))
                    /\ UNCHANGED <<img_bytes, source>>
               ELSE /\ img_bytes' = (IF part = "telegram_file_id" THEN dl
                                     ELSE IF part = "image" THEN request.image
                                     ELSE IF part = "file" THEN request.file
                                     ELSE request.data)
                    /\ source' = (IF part = "telegram_file_id" THEN "telegram"
                                  ELSE IF part = "data" THEN "raw_data"
                                  ELSE "direct_upload")
                    /\ pc' = "bytes"
                    /\ UNCHANGED <<resp, raised>>
    /\ UNCHANGED <<kind, boxes, i, detected_plates, annotated, labels, img_marks, files,
                   uploads, ocrLog, inserts, request>>
    /\ UNCHANGED outsideSource

\* if not img_bytes or len(img_bytes) == 0: 400.
CheckEmpty ==
    /\ pc = "bytes"
    /\ IF img_bytes = "empty"
       THEN Return(Response(400, "error", "return", << >>, -1))
       ELSE /\ pc' = "decoding"
            /\ UNCHANGED <<resp, raised>>
    /\ UNCHANGED <<kind, boxes, i, detected_plates, annotated, labels, img_marks, files,
                   uploads, ocrLog, inserts, img_bytes>>
    /\ UNCHANGED srcVars
    /\ UNCHANGED outsideSource

\* img = cv2.imdecode(...); if img is None: 400.
DecodeBytes ==
    /\ pc = "decoding"
    /\ IF ~Decodes(img_bytes)
       THEN Return(Response(400, "error", "return", << >>, -1))
       ELSE /\ pc' = "saving"
            /\ UNCHANGED <<resp, raised>>
    /\ UNCHANGED <<kind, boxes, i, detected_plates, annotated, labels, img_marks, files,
                   uploads, ocrLog, inserts, img_bytes>>
    /\ UNCHANGED srcVars
    /\ UNCHANGED outsideSource

\* cv2.imwrite(save_path, img): the raw image is on disk, detection is next.
SaveRawImage ==
    /\ pc = "saving"
    /\ files' = {RawFile}
    /\ pc' = "saved"
    /\ UNCHANGED <<kind, boxes, i, detected_plates, annotated, labels, img_marks,
                   uploads, ocrLog, inserts, resp, img_bytes, raised>>
    /\ UNCHANGED srcVars
    /\ UNCHANGED outsideSource

\* The request is over (or goes on to detection); the next one may arrive.
NextPost ==
    /\ pc \in {"done", "saved"}
    /\ pc' = "idle"
    /\ Begin("idle")
    /\ files' = {}
    /\ uploads' = << >>
    /\ resp' = NoResp
    /\ img_bytes' = "None"
    /\ raised' = "None"
    /\ request' = NoRequest
    /\ source' = "None"
    /\ reads' = << >>
    /\ UNCHANGED outsideSource

SourceNext ==
    \/ Post
    \/ ReadFields
    \/ ChooseSource
    \/ CheckEmpty
    \/ DecodeBytes
    \/ SaveRawImage
    \/ NextPost

SourceSpec == Init /\ [][SourceNext]_vars

\* ================================================================ claims
Done == pc = "done"
IsServer == kind \in {"upload", "telegram"}

\* The bytes the route obtained are no image.
Undecodable == img_bytes \in {"empty", "garbage"}

\* model.predict has returned its boxes for the decoded image.
Detected == img_bytes = "image" /\ (pc = "loop" \/ (Done /\ raised # "predict"))

\* The box a record was made from (its file name carries the index).
BoxOf(rec) == rec.file[2] + 1

\* The text of a record, under the key its pipeline uses.
Text(rec) == IF kind = "detect" THEN rec.plate_text ELSE rec.text

\* The records the caller of the handler ends up with.
ReturnedRecords == IF Done /\ resp.via = "return" THEN detected_plates ELSE << >>

\* A plate box wider and higher than zero after int().
Survives(b) == IsPlate(b) /\ X2(b) > X1(b) /\ Y2(b) > Y1(b)

\* Every box the detector returned lies inside the image, as clipped boxes do.
AllInside ==
    \A k \in 1..Len(boxes) :
        /\ 0 <= X1(boxes[k]) /\ X1(boxes[k]) <= W /\ 0 <= X2(boxes[k]) /\ X2(boxes[k]) <= W
        /\ 0 <= Y1(boxes[k]) /\ Y1(boxes[k]) <= H /\ 0 <= Y2(boxes[k]) /\ Y2(boxes[k]) <= H

(* C1, as stated: on both routes (POST /upload, POST /telegram-webhook) a     *)
(* request whose bytes cannot be decoded is answered with a 4xx status.      *)
C1_UndecodableIsClientError ==
    (Done /\ IsServer /\ Undecodable) => resp.code \in 400..499

(* C1, amended: a request whose bytes cannot be decoded is answered 400 by   *)
(* POST /upload, and 200 with status "error" by POST /telegram-webhook.      *)
C1_UndecodableRejected ==
    (Done /\ IsServer /\ Undecodable) =>
        /\ kind = "upload" => resp.code = 400
        /\ kind = "telegram" => (resp.code = 200 /\ resp.status = "error")

C1_Witness ==
    /\ Done
    /\ kind = "telegram"
    /\ img_bytes = "garbage"
    /\ resp.code = 200
    /\ resp.status = "error"

(* C2: when model.predict raises on a decoded image, the request does not    *)
(* fail: detect_plates returns the empty list and the two routes answer with *)
(* their success response for an image without plates.                       *)
C2_DetectorFailureNotFatal ==
    (Done /\ raised = "predict") =>
        /\ kind = "detect" => (resp.code = 0 /\ resp.plates = << >>)
        /\ IsServer => resp = Success(kind, << >>)

(* C3: a failure while one box is processed (crop, crop file, OCR, upload)   *)
(* touches that box alone: the routes do not answer with an error and every  *)
(* other surviving box still has its record in the result. Stated for boxes  *)
(* inside the image, where no clipping is involved.                          *)
C3_BoxFailureIsLocal ==
    (Done /\ Detected /\ AllInside) =>
        /\ IsServer => (resp.code = 200 /\ resp.status # "error")
        /\ \A k \in 1..Len(boxes) :
             (Survives(boxes[k]) /\ ~CropEmpty(boxes[k])) =>
                \E n \in 1..Len(ReturnedRecords) : BoxOf(ReturnedRecords[n]) = k

\* What run_ocr_on_crop is to give for an engine outcome.
OcrResult(out) == IF out.raised THEN None ELSE Sanitize(out.text)

(* C4: an exception of the OCR engine on one crop never leaves               *)
(* run_ocr_on_crop: that crop still gets its record, with the text           *)
(* "unreadable"; every record carries the text of its own OCR call and the   *)
(* confidence of its own box; and a request in which the engine raised still *)
(* ends with HTTP 200 and all its records.                                   *)
C4_OcrFailureIsLocal ==
    /\ raised # "ocr"
    /\ Len(detected_plates) = Len(ocrLog)
    /\ \A n \in 1..Len(detected_plates) :
         LET rec == detected_plates[n]
             call == ocrLog[n]
         IN  /\ BoxOf(rec) = call.box
             /\ rec.confidence = boxes[call.box].conf
             /\ call.out.raised => Text(rec) = UNREADABLE
             /\ (~call.out.raised /\ OcrResult(call.out) # None) =>
                    Text(rec) = OcrResult(call.out)
    /\ (Done /\ IsServer /\ raised = "None"
          /\ \E n \in 1..Len(ocrLog) : ocrLog[n].out.raised) =>
         /\ resp.code = 200
         /\ resp.via = "return"
         /\ kind = "upload" => resp.plates = detected_plates
         /\ kind = "telegram" => resp.count = Len(detected_plates)

C4_Witness ==
    /\ Done
    /\ kind = "upload"
    /\ Len(ocrLog) = 2
    /\ ocrLog[1].out.raised
    /\ ~ocrLog[2].out.raised
    /\ resp.code = 200
    /\ Len(resp.plates) = 2
    /\ resp.plates[1].text = UNREADABLE
    /\ resp.plates[2].text = <<65, 49>>
    /\ resp.plates[1].confidence # resp.plates[2].confidence

(* C5: the coordinates used for the crop of every record have x2 > x1 and    *)
(* y2 > y1 and both corners inside [0, W] x [0, H], whatever box the         *)
(* detector returned.                                                        *)
C5_CropInsideImage ==
    \A n \in 1..Len(detected_plates) :
        LET b == boxes[BoxOf(detected_plates[n])]
        IN  /\ X2(b) > X1(b)
            /\ Y2(b) > Y1(b)
            /\ 0 <= X1(b) /\ X2(b) <= W
            /\ 0 <= Y1(b) /\ Y2(b) <= H

RECURSIVE SurvivorsFrom(_, _)
\* The indices k.. of the boxes of bs that are plates and not degenerate.
SurvivorsFrom(bs, k) ==
    IF k > Len(bs) THEN << >>
    ELSE (IF Survives(bs[k]) THEN <<k>> ELSE << >>) \o SurvivorsFrom(bs, k + 1)

(* C6: the records of an image are, in the detector's order, exactly the     *)
(* boxes whose class is "plate" (whatever the case) and that are not         *)
(* degenerate: one record each, none for another box, none merged. Stated   *)
(* for boxes inside the image, where no clipping is involved.                *)
C6_RecordsAreThePlateBoxes ==
    (Done /\ Detected /\ AllInside) =>
        [n \in 1..Len(ReturnedRecords) |-> BoxOf(ReturnedRecords[n])]
            = SurvivorsFrom(boxes, 1)

\* Box k has been reached by the loop.
Reached(k) == k < i \/ (k = i /\ Done /\ k <= Len(boxes))

(* C7: a plate box of width or height zero or less is skipped silently and   *)
(* alone, in upload_image, telegram_webhook and detect_plates: nothing is    *)
(* drawn, written, uploaded or recorded for it, and the result holds as many *)
(* records as there are other plate boxes, as if it had not been there.      *)
C7_DegenerateBoxSkipped ==
    /\ \A k \in 1..Len(boxes) :
         (Reached(k) /\ IsPlate(boxes[k]) /\ Degenerate(boxes[k])) =>
            /\ \A n \in 1..Len(detected_plates) : BoxOf(detected_plates[n]) # k
            /\ CropFile(k) \notin files
            /\ \A n \in 1..Len(uploads) : uploads[n] # CropFile(k)
            /\ \A n \in 1..Len(annotated) : annotated[n] # Rect(boxes[k])
    /\ (Done /\ Detected /\ AllInside) =>
         Len(ReturnedRecords) = Cardinality({k \in 1..Len(boxes) : Survives(boxes[k])})

\* The sanitizer of the claim: only ASCII letters and digits are kept.
AsciiOnly(text) ==
    LET kept == SelectSeq(text, IsAsciiAlnum)
    IN  IF kept # << >> THEN kept ELSE None

(* C8: for every raw text the sanitizer returns the text without every       *)
(* character that is not an ASCII letter or digit, order and case kept, and  *)
(* the absent value exactly when no character remains.                       *)
C8_SanitizerKeepsAsciiAlnum ==
    pc = "sanitized" => sanOut = AsciiOnly(sanIn)

\* The rows and records a request has produced carry the text t.
TextsProduced ==
    {Text(detected_plates[n]) : n \in 1..Len(detected_plates)}
        \cup {inserts[n].plate_text : n \in 1..Len(inserts)}
        \cup {Text(resp.plates[n]) : n \in 1..Len(resp.plates)}

(* C9, as stated: a record's text is "unreadable" exactly when the           *)
(* sanitizer returned absent or OCR failed.                                  *)
C9_UnreadableOnlyWhenAbsent ==
    \A n \in 1..Len(detected_plates) :
        (n <= Len(ocrLog) /\ Text(detected_plates[n]) = UNREADABLE) =>
            OcrResult(ocrLog[n].out) = None

(* C9, amended: the text of every record and of every inserted row is a      *)
(* non-empty string, never the absent value: the sanitized text when the     *)
(* sanitizer returned one, "unreadable" whenever it returned absent or OCR   *)
(* failed.                                                                   *)
C9_TextNeverAbsent ==
    /\ \A t \in TextsProduced : t # None /\ t # << >> /\ \A k \in 1..Len(t) : t[k] >= 0
    /\ \A n \in 1..Len(detected_plates) :
         n <= Len(ocrLog) =>
            Text(detected_plates[n]) =
                (IF OcrResult(ocrLog[n].out) = None THEN UNREADABLE
                 ELSE OcrResult(ocrLog[n].out))
    /\ (Done /\ IsServer /\ resp.via = "return" /\ detected_plates # << >>) =>
         [n \in 1..Len(inserts) |-> inserts[n].plate_text]
            = [n \in 1..Len(detected_plates) |-> Text(detected_plates[n])]

C9_Witness ==
    /\ Done
    /\ kind = "upload"
    /\ Len(ocrLog) = 2
    /\ ocrLog[1].out = [raised |-> FALSE, text |-> <<45, 45>>]
    /\ ocrLog[2].out = [raised |-> FALSE, text |-> <<65, 45, 49, 10>>]
    /\ Len(inserts) = 2
    /\ inserts[1].plate_text = UNREADABLE
    /\ inserts[2].plate_text = <<65, 49>>
    /\ resp.plates[1].text = UNREADABLE

\* No box the detector returned passes the class and the size checks.
NoSurvivor == \A k \in 1..Len(boxes) : ~Survives(boxes[k])

(* C10, as stated: a request with a decodable image without a surviving      *)
(* plate box succeeds with zero records and hands nothing to persistence.    *)
C10_NothingPersisted ==
    (Done /\ IsServer /\ Detected /\ NoSurvivor) =>
        /\ resp.code = 200
        /\ detected_plates = << >>
        /\ inserts = << >>

(* C10, amended: such a request succeeds with HTTP 200 and zero records, and *)
(* exactly one row is handed to persistence: the placeholder with the text   *)
(* "no_plate_detected", confidence 0.0 and no plate URL.                     *)
C10_PlatelessSucceeds ==
    (Done /\ IsServer /\ Detected /\ NoSurvivor) =>
        /\ resp.code = 200
        /\ resp.via = "return"
        /\ detected_plates = << >>
        /\ resp.plates = << >>
        /\ kind = "upload" => resp.status = "no_plate_detected"
        /\ kind = "telegram" => resp.count = 0
        /\ Len(inserts) = 1
        /\ inserts[1].plate_text = NO_PLATE_DETECTED
        /\ inserts[1].confidence = 0
        /\ inserts[1].plate_url = None

C10_Witness ==
    /\ Done
    /\ kind = "upload"
    /\ Detected
    /\ Len(boxes) = 2
    /\ NoSurvivor
    /\ resp.code = 200
    /\ resp.status = "no_plate_detected"
    /\ Len(inserts) = 1


\* The annotated scene image of the request has been written.
AnnotatedWritten == IsServer /\ AnnotatedFile \in files

(* C11: the annotated scene image is a copy of the original with exactly one  *)
(* rectangle and one label+confidence text for each surviving plate box, in   *)
(* the detector's order, and none for another box, whatever OCR did for the   *)
(* box; nothing is ever drawn on the original, and with no surviving box the  *)
(* annotated image is the original as it was.                                 *)
C11_AnnotationPerSurvivor ==
    /\ img_marks = << >>
    /\ AnnotatedWritten =>
         LET S == SelectSeq(boxes, Survives)
         IN  /\ Len(annotated) = Len(S)
             /\ Len(labels) = Len(S)
             /\ \A n \in 1..Len(S) :
                    annotated[n] = Rect(S[n]) /\ labels[n] = Label(S[n])

\* An annotated image with the rectangle of a box whose OCR raised, beside a
\* box that did not survive.
C11_Witness ==
    /\ AnnotatedWritten
    /\ Len(boxes) = 2
    /\ Len(annotated) = 1
    /\ \E n \in 1..Len(ocrLog) : ocrLog[n].out.raised


\* The stages of a request of ConcSpec, in order, and how far worker w is.
Stages == <<"idle", "decoded", "saved", "predicting", "crop", "cropped", "annotate",
            "annotated", "persist", "done">>
Rank(st) == CHOOSE n \in 1..Len(Stages) : Stages[n] = st
Past(w, st) == Rank(w_pc[w]) >= Rank(st)

\* The local files the request of worker w has written so far.
WrittenBy(w) ==
    (IF Past(w, "saved") THEN {PathOf(w_filename[w], RawFile)} ELSE {})
    \cup (IF Past(w, "cropped") THEN {PathOf(w_filename[w], CropFile(1))} ELSE {})
    \cup (IF Past(w, "annotated") THEN {PathOf(w_filename[w], AnnotatedFile)} ELSE {})

(* C12: requests are independent: the raw, crop and annotated files a request *)
(* has written hold its own image, never another request's, and the URLs it   *)
(* returns and persists lead to its own image in the bucket, also for         *)
(* requests handled side by side or within one clock second.                  *)
C12_RequestsIndependent ==
    \A w \in Workers :
        /\ \A p \in WrittenBy(w) : disk[p] = w
        /\ w_plate_url[w] # None => storage[w_plate_url[w]] = w
        /\ w_scene_url[w] # None => storage[w_scene_url[w]] = w

(* C19: nothing serializes the detector: a worker that has its image saved    *)
(* can call model.predict whatever the other workers are doing, also while    *)
(* one of them is inside model.predict; and model is the object made at       *)
(* import, no request assigns it.                                             *)
C19_PredictNotSerialized ==
    /\ model = YOLO
    /\ \A w \in Workers : w_pc[w] = "saved" => ENABLED EnterPredict(w)

\* Two requests inside model.predict at the same time.
C19_Witness == \A w \in Workers : w_pc[w] = "predicting"


(* C13: POST /telegram-webhook answers with HTTP status 200 whatever happens: *)
(* no photo, no file_id, a failed download, an undecodable image, a failure   *)
(* of the detector, of a file write, of storage or of the table, a body that  *)
(* is not JSON, and success.                                                  *)
C13_WebhookAlways200 ==
    (kind = "telegram" /\ resp # NoResp) => resp.code = 200

\* The webhook has answered a request whose detector raised.
C13_Witness ==
    /\ kind = "telegram"
    /\ Done
    /\ raised = "predict"
    /\ resp.status = "error"

\* The image went through the loop and the response is the handler's own.
Processed == IsServer /\ Done /\ resp.via = "return" /\ AnnotatedFile \in files

(* C14: failures of storage and of the table are swallowed: neither           *)
(* upload_to_supabase_storage nor insert_plate_record raises into the         *)
(* handler, and a processed request answers 200 with the status of success    *)
(* whatever its uploads and inserts did, each URL being the public URL of its *)
(* key or None.                                                               *)
C14_StorageFailuresSwallowed ==
    /\ raised \notin {"upload", "insert"}
    /\ Processed =>
         /\ resp = Success(kind, detected_plates)
         /\ resp.code = 200
         /\ resp.status \in {"ok", "no_plate_detected"}
         /\ scene \in {None, PublicUrl(AnnotatedFile, TRUE)}
         /\ \A n \in 1..Len(detected_plates) :
                detected_plates[n].plate_url
                    \in {None, PublicUrl(detected_plates[n].file, TRUE)}

\* A request with a plate whose uploads and insert all failed, answered "ok".
C14_Witness ==
    /\ Processed
    /\ Len(detected_plates) >= 1
    /\ \A n \in 1..Len(detected_plates) : detected_plates[n].plate_url = None
    /\ scene = None
    /\ inserts # << >>
    /\ db = << >>
    /\ resp.code = 200
    /\ resp.status = "ok"

(* C15: no insert is attempted before every box has been processed and the   *)
(* annotated image handed to the upload; and a processed image with n >= 1    *)
(* records has had exactly n insert attempts, one per record in order, each   *)
(* with the record's text, confidence and crop URL or None, the camera_id of  *)
(* the request and the one scene URL or None of the request.                  *)
C15_OneInsertPerRecord ==
    /\ inserts # << >> =>
         /\ i > Len(boxes)
         /\ uploads # << >>
         /\ uploads[Len(uploads)] = AnnotatedFile
    /\ (Processed /\ Len(detected_plates) >= 1) =>
         /\ Len(inserts) = Len(detected_plates)
         /\ \A n \in 1..Len(detected_plates) :
              inserts[n] = [camera_id |-> camera_id,
                            plate_text |-> detected_plates[n].text,
                            confidence |-> detected_plates[n].confidence,
                            plate_url |-> detected_plates[n].plate_url,
                            scene_url |-> scene,
                            status |-> "new"]

\* Two records that differ, the first insert refused and the second taken.
C15_Witness ==
    /\ Processed
    /\ Len(detected_plates) = 2
    /\ detected_plates[1].confidence # detected_plates[2].confidence
    /\ detected_plates[1].plate_url # None
    /\ scene # None
    /\ Len(db) = 1
    /\ db[1].plate_text = detected_plates[2].text

\* The request ended before its image was decoded: no image, or no usable one.
DecodeFailed == Done /\ ~Decodes(img_bytes)
\* The request ended with the response of the handler itself.
Complete == Done /\ resp.via = "return"

(* C18: the stages follow one another as Decoding, Detecting, the per-box     *)
(* stages, Annotating, Complete: nothing is drawn on the annotated image      *)
(* before the per-box stages of all boxes are finished, and a request ends    *)
(* in Complete or in DecodeFailed only.                                       *)
C18_StrictPipeline ==
    /\ annotated # << >> => i > Len(boxes)
    /\ Done => (Complete \/ DecodeFailed)

(* C20: every request of /upload and /telegram-webhook gets exactly one       *)
(* response: once a handler has a request it reaches its response, whether    *)
(* it runs to the end or an exception reaches its except clause, and the      *)
(* response, once made, is not replaced.                                      *)
C20_EveryRequestAnswered ==
    /\ [][resp # NoResp => resp' = resp]_vars
    /\ (pc # "idle") ~> (Done /\ resp # NoResp)

\* A request that threw partway, at the write of an empty crop after one
\* record was made, and has its response.
C20_Witness ==
    /\ IsServer
    /\ Done
    /\ raised = "imwrite"
    /\ Len(detected_plates) = 1
    /\ resp.via = "except"


\* download_model is called in this step.
Called == calls' = calls + 1

(* C17: download_model downloads only what is not there: called while         *)
(* models/best.pt exists, either variant returns the path, with no network    *)
(* request and no exception, whether MODEL_URL is set or not; called while    *)
(* the file is absent and MODEL_URL is not set, it raises ValueError and      *)
(* creates no file.                                                           *)
C17_DownloadOnlyIfAbsent ==
    [][ /\ (Called /\ best_pt # "absent") =>
             (dm_outcome' = "returned" /\ net_requests' = net_requests)
        /\ (Called /\ best_pt = "absent" /\ MODEL_URL = "" /\ dm_variant' = "server") =>
             (dm_outcome' = "ValueError" /\ best_pt' = "absent")
        /\ (Called /\ dm_outcome' = "ValueError") =>
             (best_pt' = best_pt /\ net_requests' = net_requests)
      ]_vars


\* What C16 compares of the records recs made of the boxes bs by entry
\* point k: the text, the confidence and the crop region, in order.
Outcome(k, recs, bs) ==
    [n \in 1..Len(recs) |->
        [text |-> IF k = "detect" THEN recs[n].plate_text ELSE recs[n].text,
         confidence |-> recs[n].confidence,
         region |-> CropRegion(bs[BoxOf(recs[n])])]]

Parts == <<"telegram_file_id", "image", "file", "data">>
Present(r, part) ==
    IF part = "telegram_file_id" THEN r.tg = "id"
    ELSE IF part = "image" THEN r.image # "absent"
    ELSE IF part = "file" THEN r.file # "absent"
    ELSE r.data # "empty"
Highest(r) ==
    IF \E n \in 1..Len(Parts) : Present(r, Parts[n])
    THEN Parts[CHOOSE n \in 1..Len(Parts) :
                 /\ Present(r, Parts[n])
                 /\ \A m \in 1..(n - 1) : ~Present(r, Parts[m])]
    ELSE "None"
PastChoice == pc \in {"bytes", "decoding", "saving", "saved", "done"}

\* C21: POST /upload takes the image from exactly one source, the first the
\* request holds of: a non-empty telegram_file_id, the file field "image",
\* the file field "file", a non-empty raw body; no source after that one is
\* read; and a request that holds none of them is answered with 400.
C21_OneSourceByPriority ==
    /\ \A k \in 1..Len(reads) : reads[k] = Highest(request)
    /\ (PastChoice /\ Highest(request) # "None") => reads = <<Highest(request)>>
    /\ (Done /\ Highest(request) = "None") => resp.code = 400

\* ---------------------------------------------------------------- C22
\* The handler has answered a request without having decoded an image:
\* /upload with 400, the webhook with "No photo received", "No file_id" or
\* "Invalid image".
Rejected ==
    /\ Done
    /\ resp.via = "return"
    /\ \/ kind = "upload" /\ resp.code = 400
       \/ kind = "telegram" /\ resp.code = 200 /\ resp.count = -1

(* C22: a request rejected before an image has been decoded leaves the        *)
(* persistent state as it was: every step that takes a request to the         *)
(* decoding, or to its rejection, leaves the table alone, and the request     *)
(* has then written no local file, attempted no storage upload and no insert. *)
C22_RejectionLeavesNoTrace ==
    [][ ( \/ pc' = "decode"
          \/ /\ pc' = "done"
             /\ resp'.via = "return"
             /\ \/ kind' = "upload" /\ resp'.code = 400
                \/ kind' = "telegram" /\ resp'.code = 200 /\ resp'.count = -1 )
        => /\ db' = db
           /\ files' = {}
           /\ uploads' = << >>
           /\ inserts' = << >> ]_vars

\* The webhook has answered "Invalid image" on a server whose table held a row.
C22_Witness ==
    /\ Rejected
    /\ kind = "telegram"
    /\ resp.status = "error"
    /\ img_bytes = "garbage"
    /\ db # << >>
    /\ files = {}
    /\ uploads = << >>

\* ---------------------------------------------------------------- C23
\* What a copy has produced when it ends: its records, text and confidence,
\* in order; none when it ended in its except clause.
Produced(k, recs, r) ==
    IF r.via = "return"
    THEN [n \in 1..Len(recs) |->
            [text |-> IF k = "detect" THEN recs[n].plate_text ELSE recs[n].text,
             confidence |-> recs[n].confidence]]
    ELSE << >>

(* C23: for the same decoded image, the same detector output and the same     *)
(* OCR outcomes, any two of detect_plates, upload_image and telegram_webhook   *)
(* produce the same sequence of records, with the same text and confidence.   *)
C23_CopiesEquivalent ==
    (run = 2 /\ Done) =>
        Produced(kind, detected_plates, resp) = Produced(first.kind, first.records, first.resp)
====
